---- MODULE Spec2Model ----
(***************************************************************************)
(* HealthChecker of scripts/health-check.py: one sequential pass of        *)
(* health checks over external commands and HTTP probes, a pass/fail       *)
(* tally, a warnings list and the process exit status.                     *)
(*                                                                         *)
(* External results are inputs: every step draws the outcome of its        *)
(* command or HTTP request from a small set.  Standard output is kept as   *)
(* the section headers printed so far (sections), the result and warning   *)
(* lines printed by the latest step (printed) and the number of result     *)
(* lines printed in all (nresults).  An exception no handler catches ends  *)
(* the process: pc = "crashed", exc names it, the exit status is 1.        *)
(***************************************************************************)
EXTENDS Integers, Sequences, FiniteSets, TLC

\* ---------------------------------------------------------------- bounds
MaxNodes == 2
MaxConds == 2
MaxReplicas == 2
MaxInstances == 2
MaxTargets == 2
MaxTopLines == 2

\* ------------------------------------------------------ program constants
DefaultExpectedStatus == 200
HealthyBelow == 80
WarnAbove == 90

VARIABLES checks_passed, checks_failed, warnings,
          pc, idx, ext, line, ret, prometheus_healthy,
          sections, printed, nresults, last,
          exc, overall, exit_status

vars == <<checks_passed, checks_failed, warnings, pc, idx, ext, line, ret,
          prometheus_healthy, sections, printed, nresults, last,
          exc, overall, exit_status>>

\* ----------------------------------------------------------- small helpers
\* An optional JSON field: <<>> when the key is absent, <<v>> when present.
Opt(S) == {<<>>} \cup {<<v>> : v \in S}

\* dict.get(key, default)
Get(o, default) == IF o = <<>> THEN default ELSE o[1]

RECURSIVE SeqsUpTo(_, _)
SeqsUpTo(S, n) ==
    IF n = 0 THEN {<<>>}
    ELSE LET shorter == SeqsUpTo(S, n - 1)
         IN  shorter \cup {Append(s, x) : s \in {t \in shorter : Len(t) = n - 1}, x \in S}

\* ------------------------------------------------------------- the tally
\* The checker's fields together with the lines the current step printed.
Tally == [passed |-> checks_passed, failed |-> checks_failed,
          warnings |-> warnings, out |-> <<>>]

\* log_check with the counters swapped
LogCheckSwapped(t, name, success, message) ==
    LET entry == [status |-> IF success THEN "PASS" ELSE "FAIL",
                 name |-> name, message |-> message]
    IN  IF success
        THEN [t EXCEPT !.out = Append(@, entry), !.failed = @ + 1]
        ELSE [t EXCEPT !.out = Append(@, entry), !.passed = @ + 1]

LogCheck(t, name, success, message) ==
    LET entry == [status |-> IF success THEN "PASS" ELSE "FAIL",
                 name |-> name, message |-> message]
    IN  IF success
        THEN [t EXCEPT !.out = Append(@, entry), !.passed = @ + 1]
        ELSE [t EXCEPT !.out = Append(@, entry), !.failed = @ + 1]

\* log_warning that also counts a failure
LogWarningFails(t, message) ==
    [t EXCEPT !.out = Append(@, [status |-> "WARN", name |-> "", message |-> message]),
              !.warnings = Append(@, message),
              !.failed = @ + 1]

LogWarning(t, message) ==
    [t EXCEPT !.out = Append(@, [status |-> "WARN", name |-> "", message |-> message]),
              !.warnings = Append(@, message)]

\* The number of PASS/FAIL lines among the lines out.
RECURSIVE ResultLines(_)
ResultLines(out) ==
    IF out = <<>> THEN 0
    ELSE (IF out[1].status = "WARN" THEN 0 ELSE 1) + ResultLines(Tail(out))

\* ------------------------------------------------------- external commands
\* What subprocess.run can do with a command whose standard output, when it
\* exits, is one of docs.
Garbage == [json |-> "invalid"]

Procs(docs) ==
    {[kind |-> "exit", rc |-> 0, stdout |-> d] : d \in docs}
    \cup {[kind |-> "exit", rc |-> 1, stdout |-> Garbage],
          [kind |-> "TimeoutExpired"], [kind |-> "OSError"]}

RunCommand(p) ==
    CASE p.kind = "exit" -> [success |-> p.rc = 0, output |-> p.stdout]
      [] p.kind = "TimeoutExpired" -> [success |-> FALSE, output |-> Garbage]
      [] OTHER -> [success |-> FALSE, output |-> Garbage]

\* json.loads: raises JSONDecodeError on text that is not JSON.
JsonLoads(output) ==
    IF output.json = "invalid"
    THEN [exc |-> "JSONDecodeError"]
    ELSE [exc |-> "none", value |-> output]

\* ------------------------------------------------------------ HTTP probes
HttpStatuses == {200, 404, 503}

HttpOutcomes ==
    {[kind |-> "response", status |-> s] : s \in HttpStatuses}
    \cup {[kind |-> "ConnectionError"], [kind |-> "Timeout"]}

\* requests.ConnectionError and requests.Timeout derive from RequestException.
IsRequestException(kind) == kind \in {"ConnectionError", "Timeout"}

\* check_http_endpoint that catches connection errors only
CheckHttpEndpointNoTimeout(resp, expected_status) ==
    IF resp.kind = "response"
    THEN [exc |-> "none", value |-> resp.status = expected_status]
    ELSE IF resp.kind = "ConnectionError"
         THEN [exc |-> "none", value |-> FALSE]
         ELSE [exc |-> resp.kind, value |-> FALSE]

CheckHttpEndpoint(resp, expected_status) ==
    IF resp.kind = "response"
    THEN [exc |-> "none", value |-> resp.status = expected_status]
    ELSE IF IsRequestException(resp.kind)
         THEN [exc |-> "none", value |-> FALSE]
         ELSE [exc |-> resp.kind, value |-> FALSE]

\* ------------------------------------------------------------ the routines
Routines == <<"kubernetes", "flux", "infrastructure", "database",
              "phoenix", "monitoring", "ingress", "resources">>

\* The first step of each routine.
Entry(r) ==
    CASE r = "kubernetes" -> "cluster_info"
      [] r = "flux" -> "flux_check"
      [] r = "infrastructure" -> "infra"
      [] r = "database" -> "database"
      [] r = "phoenix" -> "phoenix_deployment"
      [] r = "monitoring" -> "prometheus"
      [] r = "ingress" -> "ingress"
      [] r = "resources" -> "top_nodes"
      [] OTHER -> "summary"

Position(r) == CHOOSE i \in 1..Len(Routines) : Routines[i] = r

\* run_all_checks that goes to the summary once a check has failed
RoutineAfterFailFast(t, r) ==
    IF t.failed > 0 \/ Position(r) = Len(Routines) THEN "summary"
    ELSE Routines[Position(r) + 1]

\* The routine run_all_checks calls after r returns with the checker as t.
RoutineAfter(t, r) ==
    IF Position(r) = Len(Routines) THEN "summary" ELSE Routines[Position(r) + 1]

\* ------------------------------------------------------- what a step leaves
Commit(t) ==
    /\ checks_passed' = t.passed
    /\ checks_failed' = t.failed
    /\ warnings' = t.warnings
    /\ printed' = t.out
    /\ nresults' = nresults + ResultLines(t.out)

\* An exception nothing catches: the interpreter prints the traceback and
\* the process ends with status 1.
Crash(t, e) ==
    /\ Commit(t)
    /\ pc' = "crashed"
    /\ exc' = e
    /\ exit_status' = 1

\* The step ends normally and control goes to the step at.
Goto(t, at) ==
    /\ Commit(t)
    /\ pc' = at
    /\ UNCHANGED <<exc, exit_status>>

\* The result r of a check's body: its exception, if any, ends the process.
Finish(r, at) == IF r.exc = "none" THEN Goto(r.t, at) ELSE Crash(r.t, r.exc)

\* The routine's last step: run_all_checks calls the routine after it.
Return(r, routine) == Finish(r, Entry(RoutineAfter(r.t, routine)))

Ok(t) == [exc |-> "none", t |-> t]
Raise(t, e) == [exc |-> e, t |-> t]

Init ==
    /\ checks_passed = 0
    /\ checks_failed = 0
    /\ warnings = <<>>
    /\ pc = "main"
    /\ idx = 0
    /\ ext = [kind |-> "none"]
    /\ line = [shape |-> "blank"]
    /\ ret = FALSE
    /\ prometheus_healthy = FALSE
    /\ sections = <<>>
    /\ printed = <<>>
    /\ nresults = 0
    /\ last = "none"
    /\ exc = "none"
    /\ overall = ""
    /\ exit_status = -1

\* __main__ builds the checker and calls run_all_checks, which prints the
\* banner and calls the first routine.
Start ==
    /\ pc = "main"
    /\ Goto(Tally, Entry(Routines[1]))
    /\ last' = "main"
    /\ UNCHANGED <<idx, ext, line, ret, prometheus_healthy, sections, overall>>

\* ------------------------------------------------- check_kubernetes_cluster
ClusterInfo ==
    /\ pc = "cluster_info"
    /\ \E p \in Procs({Garbage}) :
         LET r == RunCommand(p)
         IN  /\ ext' = p
             /\ Goto(LogCheck(Tally, "Cluster connectivity", r.success,
                              IF r.success THEN "Connected"
                              ELSE "Cannot connect to cluster"),
                     "node_status")
    /\ sections' = Append(sections, "kubernetes")
    /\ last' = "cluster_info"
    /\ UNCHANGED <<idx, line, ret, prometheus_healthy, overall>>

Conditions ==
    {[type |-> "Ready", status |-> "True"],
     [type |-> "Ready", status |-> "False"],
     [type |-> "MemoryPressure", status |-> "True"]}

\* A node of the list: node['status']['conditions'], or a node without it.
Nodes == [conditions : Opt(SeqsUpTo(Conditions, MaxConds))]

NodeDocs ==
    {Garbage, [json |-> "nondict"]}
    \cup [json : {"object"}, items : Opt(SeqsUpTo(Nodes, MaxNodes))]

\* The inner loop without its break
ScanConditionsNoBreak(conds, i) ==
    Cardinality({j \in i..Len(conds) :
                   conds[j].type = "Ready" /\ conds[j].status = "True"})

\* The inner loop from condition i on: what it adds to ready_nodes.
RECURSIVE ScanConditions(_, _)
ScanConditions(conds, i) ==
    IF i > Len(conds) THEN 0
    ELSE IF conds[i].type = "Ready" /\ conds[i].status = "True" THEN 1
    ELSE ScanConditions(conds, i + 1)

\* The outer loop from node i on.
RECURSIVE CountReady(_, _)
CountReady(items, i) ==
    IF i > Len(items) THEN 0
    ELSE ScanConditions(items[i].conditions[1], 1) + CountReady(items, i + 1)

NodeReadiness(t, output) ==
    LET j == JsonLoads(output)
    IN  IF j.exc # "none"
        THEN Ok(LogCheck(t, "Node readiness", FALSE, "Cannot parse node status"))
        ELSE IF j.value.json # "object"
        THEN Raise(t, "TypeError")
        ELSE IF j.value.items = <<>>
                \/ \E i \in 1..Len(j.value.items[1]) :
                      j.value.items[1][i].conditions = <<>>
        THEN Ok(LogCheck(t, "Node readiness", FALSE, "Cannot parse node status"))
        ELSE LET items == j.value.items[1]
                 ready_nodes == CountReady(items, 1)
                 total_nodes == Len(items)
             IN  Ok(LogCheck(t, "Node readiness", ready_nodes = total_nodes,
                             ToString(ready_nodes) \o "/" \o ToString(total_nodes)
                                \o " nodes ready"))

NodeStatus ==
    /\ pc = "node_status"
    /\ \E p \in Procs(NodeDocs) :
         LET r == RunCommand(p)
         IN  /\ ext' = p
             /\ IF r.success
                THEN Return(NodeReadiness(Tally, r.output), "kubernetes")
                ELSE Return(Ok(LogCheck(Tally, "Node readiness", FALSE,
                                        "Cannot get node status")), "kubernetes")
    /\ last' = "node_status"
    /\ UNCHANGED <<idx, line, ret, prometheus_healthy, sections, overall>>

\* --------------------------------------------------------- check_flux_system
FluxCheck ==
    /\ pc = "flux_check"
    /\ \E p \in Procs({Garbage}) :
         LET r == RunCommand(p)
         IN  /\ ext' = p
             /\ Goto(LogCheck(Tally, "Flux system", r.success,
                              IF r.success THEN "All components ready"
                              ELSE "Issues detected"),
                     "flux_resources")
    /\ sections' = Append(sections, "flux")
    /\ last' = "flux_check"
    /\ UNCHANGED <<idx, line, ret, prometheus_healthy, overall>>

FluxResources ==
    /\ pc = "flux_resources"
    /\ \E p \in Procs({Garbage}) :
         LET r == RunCommand(p)
         IN  /\ ext' = p
             /\ IF r.success
                THEN Return(Ok(LogCheck(Tally, "Flux resources", TRUE,
                                        "All resources reconciled")), "flux")
                ELSE Return(Ok(LogCheck(Tally, "Flux resources", FALSE,
                                        "Some resources not reconciled")), "flux")
    /\ last' = "flux_resources"
    /\ UNCHANGED <<idx, line, ret, prometheus_healthy, sections, overall>>

\* ------------------------------------------- check_infrastructure_components
Components ==
    << <<"ingress-nginx", "ingress-nginx-controller">>,
       <<"cnpg-system", "cnpg-controller-manager">>,
       <<"monitoring", "prometheus-operator">>,
       <<"monitoring", "grafana">> >>

ComponentName(i) == Components[i][1] \o "/" \o Components[i][2]

\* The output of kubectl get deployment -o json: dep['status'] with its
\* readyReplicas, dep['spec'] with its replicas, each present or not.
DeploymentDocs ==
    {Garbage, [json |-> "nondict"]}
    \cup [json : {"object"},
          status : Opt([readyReplicas : Opt(0..MaxReplicas)]),
          spec : Opt([replicas : Opt(0..MaxReplicas)])]

\* The comparison with at least the desired replicas ready
ComponentReadyAtLeast(ready, desired) == ready >= desired

ComponentReady(ready, desired) == ready = desired

\* The try block of a deployment check, its except clause and its else branch.
DeploymentStatus(t, name, output, parse_message) ==
    LET j == JsonLoads(output)
    IN  IF j.exc # "none"
        THEN Ok(LogCheck(t, name, FALSE, parse_message))
        ELSE IF j.value.json # "object"
        THEN Raise(t, "TypeError")
        ELSE IF j.value.status = <<>>
                \/ j.value.spec = <<>>
                \/ j.value.spec[1].replicas = <<>>
        THEN Ok(LogCheck(t, name, FALSE, parse_message))
        ELSE LET ready == Get(j.value.status[1].readyReplicas, 0)
                 desired == j.value.spec[1].replicas[1]
             IN  Ok(LogCheck(t, name, ComponentReady(ready, desired),
                             ToString(ready) \o "/" \o ToString(desired)
                                \o " replicas ready"))

InfraDeployment(t, i, r) ==
    IF r.success
    THEN DeploymentStatus(t, ComponentName(i), r.output, "Cannot parse status")
    ELSE Ok(LogCheck(t, ComponentName(i), FALSE, "Deployment not found"))

\* The header and the components list.
Infra ==
    /\ pc = "infra"
    /\ idx' = 1
    /\ sections' = Append(sections, "infrastructure")
    /\ Goto(Tally, "infra_item")
    /\ last' = "infra"
    /\ UNCHANGED <<ext, line, ret, prometheus_healthy, overall>>

\* One iteration of the loop over components.
InfraItem ==
    /\ pc = "infra_item"
    /\ \E p \in Procs(DeploymentDocs) :
         LET res == InfraDeployment(Tally, idx, RunCommand(p))
         IN  /\ ext' = p
             /\ idx' = IF res.exc = "none" THEN idx + 1 ELSE idx
             /\ IF idx < Len(Components)
                THEN Finish(res, "infra_item")
                ELSE Return(res, "infrastructure")
    /\ last' = "infra_item"
    /\ UNCHANGED <<line, ret, prometheus_healthy, sections, overall>>

\* ---------------------------------------------------- check_database_cluster
Phases == {"Cluster in healthy state", "Setting up primary"}

ClusterStatuses ==
    [readyInstances : Opt(0..MaxInstances),
     instances : Opt(0..MaxInstances),
     phase : Opt(Phases)]

ClusterDocs ==
    {Garbage, [json |-> "nondict"]}
    \cup [json : {"object"}, status : Opt(ClusterStatuses)]

\* cluster.get('status', {}): an empty status has none of the fields.
EmptyStatus == [readyInstances |-> <<>>, instances |-> <<>>, phase |-> <<>>]

\* The comparison without the instances > 0 part
ClusterHealthyNoPositive(ready_instances, instances) ==
    ready_instances = instances

ClusterHealthy(ready_instances, instances) ==
    ready_instances = instances /\ instances > 0

DatabaseStatus(t, output) ==
    LET j == JsonLoads(output)
    IN  IF j.exc # "none"
        THEN Ok(LogCheck(t, "PostgreSQL cluster", FALSE, "Cannot parse cluster status"))
        ELSE IF j.value.json # "object"
        THEN Raise(t, "AttributeError")
        ELSE LET status == Get(j.value.status, EmptyStatus)
                 ready_instances == Get(status.readyInstances, 0)
                 instances == Get(status.instances, 0)
                 phase == Get(status.phase, "Unknown")
                 t1 == LogCheck(t, "PostgreSQL cluster",
                                ClusterHealthy(ready_instances, instances),
                                ToString(ready_instances) \o "/" \o ToString(instances)
                                   \o " instances ready")
             IN  Ok(LogCheck(t1, "Cluster phase", phase = "Cluster in healthy state",
                             "Phase: " \o phase))

Database ==
    /\ pc = "database"
    /\ \E p \in Procs(ClusterDocs) :
         LET r == RunCommand(p)
         IN  /\ ext' = p
             /\ IF r.success
                THEN Return(DatabaseStatus(Tally, r.output), "database")
                ELSE Return(Ok(LogCheck(Tally, "PostgreSQL cluster", FALSE,
                                        "Cluster not found")), "database")
    /\ sections' = Append(sections, "database")
    /\ last' = "database"
    /\ UNCHANGED <<idx, line, ret, prometheus_healthy, overall>>

\* -------------------------------------------------- check_phoenix_application
PhoenixDeploymentStatus(t, r) ==
    IF r.success
    THEN DeploymentStatus(t, "Phoenix deployment", r.output,
                          "Cannot parse deployment status")
    ELSE Ok(LogCheck(t, "Phoenix deployment", FALSE, "Deployment not found"))

PhoenixDeployment ==
    /\ pc = "phoenix_deployment"
    /\ \E p \in Procs(DeploymentDocs) :
         /\ ext' = p
         /\ Finish(PhoenixDeploymentStatus(Tally, RunCommand(p)), "phoenix_health")
    /\ sections' = Append(sections, "phoenix")
    /\ last' = "phoenix_deployment"
    /\ UNCHANGED <<idx, line, ret, prometheus_healthy, overall>>

\* A call of check_http_endpoint(url) with the default expected status: the
\* value it returns is kept in ret, an exception it lets through ends the run.
Probe(resp, at) ==
    LET r == CheckHttpEndpoint(resp, DefaultExpectedStatus)
    IN  /\ ext' = resp
        /\ ret' = r.value
        /\ Finish([exc |-> r.exc, t |-> Tally], at)

PhoenixHealth ==
    /\ pc = "phoenix_health"
    /\ \E resp \in HttpOutcomes : Probe(resp, "phoenix_health_log")
    /\ last' = "phoenix_health"
    /\ UNCHANGED <<idx, line, prometheus_healthy, sections, overall>>

PhoenixHealthLog ==
    /\ pc = "phoenix_health_log"
    /\ IF ret
       THEN Return(Ok(LogCheck(Tally, "Health endpoint", TRUE, "Responding correctly")),
                   "phoenix")
       ELSE Return(Ok(LogCheck(Tally, "Health endpoint", FALSE, "Not responding")),
                   "phoenix")
    /\ last' = "phoenix_health_log"
    /\ UNCHANGED <<idx, ext, line, ret, prometheus_healthy, sections, overall>>

\* ---------------------------------------------------- check_monitoring_stack
Prometheus ==
    /\ pc = "prometheus"
    /\ \E resp \in HttpOutcomes :
         /\ Probe(resp, "prometheus_log")
         /\ prometheus_healthy' = CheckHttpEndpoint(resp, DefaultExpectedStatus).value
    /\ sections' = Append(sections, "monitoring")
    /\ last' = "prometheus"
    /\ UNCHANGED <<idx, line, overall>>

PrometheusLog ==
    /\ pc = "prometheus_log"
    /\ Goto(LogCheck(Tally, "Prometheus", prometheus_healthy,
                     IF prometheus_healthy THEN "Healthy" ELSE "Not responding"),
            "grafana")
    /\ last' = "prometheus_log"
    /\ UNCHANGED <<idx, ext, line, ret, prometheus_healthy, sections, overall>>

Grafana ==
    /\ pc = "grafana"
    /\ \E resp \in HttpOutcomes : Probe(resp, "grafana_log")
    /\ last' = "grafana"
    /\ UNCHANGED <<idx, line, prometheus_healthy, sections, overall>>

GrafanaLog ==
    /\ pc = "grafana_log"
    /\ LET t == LogCheck(Tally, "Grafana", ret,
                         IF ret THEN "Healthy" ELSE "Not responding")
       IN  IF prometheus_healthy
           THEN Goto(t, "prometheus_targets")
           ELSE Return(Ok(t), "monitoring")
    /\ last' = "grafana_log"
    /\ UNCHANGED <<idx, ext, line, ret, prometheus_healthy, sections, overall>>

Healths == {"up", "down"}

\* The body of the targets response: data['data']['activeTargets'], each
\* target with its 'health', each present or not.
TargetDocs ==
    {[json |-> "nondict"]}
    \cup [json : {"object"},
          activeTargets : Opt(SeqsUpTo([health : Opt(Healths)], MaxTargets))]

\* What response.json() raises on a body that is not JSON: requests from
\* 2.27 on raises requests.JSONDecodeError, a RequestException; older
\* releases raise a plain ValueError.
JsonErrors == {"requests.JSONDecodeError", "ValueError"}

TargetOutcomes ==
    {[kind |-> "response", status |-> s] : s \in HttpStatuses \ {200}}
    \cup {[kind |-> "ConnectionError"], [kind |-> "Timeout"]}
    \cup {[kind |-> "response", status |-> 200, body |-> d] : d \in TargetDocs}
    \cup {[kind |-> "response", status |-> 200, body |-> Garbage, raises |-> e] :
            e \in JsonErrors}

RECURSIVE UpTargets(_)
UpTargets(active_targets) ==
    IF active_targets = <<>> THEN <<>>
    ELSE IF active_targets[1].health[1] = "up"
         THEN <<active_targets[1]>> \o UpTargets(Tail(active_targets))
         ELSE UpTargets(Tail(active_targets))

PrometheusTargetsStatus(t, resp) ==
    IF resp.kind # "response"
    THEN IF IsRequestException(resp.kind)
         THEN Ok(LogCheck(t, "Prometheus targets", FALSE,
                          "Cannot connect to Prometheus API"))
         ELSE Raise(t, resp.kind)
    ELSE IF resp.status # 200
    THEN Ok(LogCheck(t, "Prometheus targets", FALSE, "Cannot fetch targets"))
    ELSE IF resp.body.json = "invalid"
    THEN IF resp.raises = "requests.JSONDecodeError"
         THEN Ok(LogCheck(t, "Prometheus targets", FALSE,
                          "Cannot connect to Prometheus API"))
         ELSE Raise(t, resp.raises)
    ELSE IF resp.body.json # "object"
    THEN Raise(t, "TypeError")
    ELSE IF resp.body.activeTargets = <<>>
            \/ \E i \in 1..Len(resp.body.activeTargets[1]) :
                  resp.body.activeTargets[1][i].health = <<>>
    THEN Raise(t, "KeyError")
    ELSE LET active_targets == resp.body.activeTargets[1]
             up_targets == UpTargets(active_targets)
         IN  Ok(LogCheck(t, "Prometheus targets", Len(up_targets) > 0,
                         ToString(Len(up_targets)) \o "/"
                            \o ToString(Len(active_targets)) \o " targets up"))

PrometheusTargets ==
    /\ pc = "prometheus_targets"
    /\ \E resp \in TargetOutcomes :
         /\ ext' = resp
         /\ Return(PrometheusTargetsStatus(Tally, resp), "monitoring")
    /\ last' = "prometheus_targets"
    /\ UNCHANGED <<idx, line, ret, prometheus_healthy, sections, overall>>

\* ------------------------------------------------ check_ingress_connectivity
Endpoints ==
    << <<"phoenix.local", "Phoenix App">>,
       <<"grafana.local", "Grafana UI">>,
       <<"prometheus.local", "Prometheus UI">> >>

Url(i) == "http://" \o Endpoints[i][1]

\* The header and the endpoints list.
Ingress ==
    /\ pc = "ingress"
    /\ idx' = 1
    /\ sections' = Append(sections, "ingress")
    /\ Goto(Tally, "ingress_probe")
    /\ last' = "ingress"
    /\ UNCHANGED <<ext, line, ret, prometheus_healthy, overall>>

IngressProbe ==
    /\ pc = "ingress_probe"
    /\ \E resp \in HttpOutcomes : Probe(resp, "ingress_log")
    /\ last' = "ingress_probe"
    /\ UNCHANGED <<idx, line, prometheus_healthy, sections, overall>>

IngressLog ==
    /\ pc = "ingress_log"
    /\ LET t == LogCheck(Tally, Endpoints[idx][2], ret,
                         Url(idx) \o (IF ret THEN " accessible" ELSE " not accessible"))
       IN  IF idx < Len(Endpoints)
           THEN Goto(t, "ingress_probe")
           ELSE Return(Ok(t), "ingress")
    /\ idx' = idx + 1
    /\ last' = "ingress_log"
    /\ UNCHANGED <<ext, line, ret, prometheus_healthy, sections, overall>>

\* ------------------------------------------------------ check_resource_usage
NodeNames == {"node-a", "node-b"}

Pcts == {50, 80, 85, 90, 95}

\* A line of kubectl top nodes --no-headers: blank, with fewer than five
\* columns, or a row whose percentage columns are a number followed by %
\* (<<n>>) or some other text such as <unknown> (<<>>).
TopLines ==
    {[shape |-> "blank"], [shape |-> "short"]}
    \cup [shape : {"row"}, node : NodeNames, cpu_pct : Opt(Pcts), memory_pct : Opt(Pcts)]

\* The text of the whole output: its lines are drawn one by one as the loop
\* reaches them; output.split('\n') has at least one element.
TopOutputs == {[json |-> "invalid", nlines |-> n] : n \in 1..MaxTopLines}

PctText(c) == IF c = <<>> THEN "<unknown>" ELSE ToString(c[1]) \o "%"

\* The health test with the limit included
NodeHealthyInclusive(cpu_usage, memory_usage) ==
    cpu_usage <= HealthyBelow /\ memory_usage <= HealthyBelow

NodeHealthy(cpu_usage, memory_usage) ==
    cpu_usage < HealthyBelow /\ memory_usage < HealthyBelow

HighUsage(cpu_usage, memory_usage) ==
    cpu_usage > WarnAbove \/ memory_usage > WarnAbove

\* The body of the loop for one line.
NodeUsage(t, l) ==
    IF l.shape # "row"
    THEN Ok(t)
    ELSE IF l.cpu_pct = <<>> \/ l.memory_pct = <<>>
    THEN Raise(t, "ValueError")
    ELSE LET cpu_usage == l.cpu_pct[1]
             memory_usage == l.memory_pct[1]
             t1 == LogCheck(t, "Node " \o l.node, NodeHealthy(cpu_usage, memory_usage),
                            "CPU: " \o PctText(l.cpu_pct) \o ", Memory: "
                               \o PctText(l.memory_pct))
         IN  IF HighUsage(cpu_usage, memory_usage)
             THEN Ok(LogWarning(t1, "High resource usage on " \o l.node))
             ELSE Ok(t1)

TopNodes ==
    /\ pc = "top_nodes"
    /\ \E p \in Procs(TopOutputs) :
         LET r == RunCommand(p)
         IN  /\ ext' = p
             /\ IF r.success
                THEN Goto(Tally, "top_line")
                ELSE Return(Ok(LogWarning(Tally,
                       "Cannot get node resource usage (metrics-server might not be available)")),
                       "resources")
    /\ idx' = 1
    /\ sections' = Append(sections, "resources")
    /\ last' = "top_nodes"
    /\ UNCHANGED <<line, ret, prometheus_healthy, overall>>

\* One iteration of the loop over the lines of the output.
TopLine ==
    /\ pc = "top_line"
    /\ \E l \in TopLines :
         LET res == NodeUsage(Tally, l)
         IN  /\ line' = l
             /\ idx' = IF res.exc = "none" THEN idx + 1 ELSE idx
             /\ IF idx < ext.stdout.nlines
                THEN Finish(res, "top_line")
                ELSE Return(res, "resources")
    /\ last' = "top_line"
    /\ UNCHANGED <<ext, ret, prometheus_healthy, sections, overall>>

\* ------------------------------------------------ the summary and the exit
\* The overall status that counts warnings as failures
OverallHealthyNoWarnings(t) == t.failed = 0 /\ t.warnings = <<>>

OverallHealthy(t) == t.failed = 0

ExitCode(success) == IF success THEN 0 ELSE 1

Summary ==
    /\ pc = "summary"
    /\ sections' = Append(sections, "summary")
    /\ overall' = IF OverallHealthy(Tally) THEN "HEALTHY" ELSE "ISSUES DETECTED"
    /\ ret' = OverallHealthy(Tally)
    /\ Goto(Tally, "exit")
    /\ last' = "summary"
    /\ UNCHANGED <<idx, ext, line, prometheus_healthy>>

Exit ==
    /\ pc = "exit"
    /\ pc' = "exited"
    /\ exit_status' = ExitCode(ret)
    /\ last' = "exit"
    /\ UNCHANGED <<checks_passed, checks_failed, warnings, idx, ext, line, ret,
                   prometheus_healthy, sections, printed, nresults, exc, overall>>

Next ==
    \/ Start
    \/ ClusterInfo \/ NodeStatus
    \/ FluxCheck \/ FluxResources
    \/ Infra \/ InfraItem
    \/ Database
    \/ PhoenixDeployment \/ PhoenixHealth \/ PhoenixHealthLog
    \/ Prometheus \/ PrometheusLog \/ Grafana \/ GrafanaLog \/ PrometheusTargets
    \/ Ingress \/ IngressProbe \/ IngressLog
    \/ TopNodes \/ TopLine
    \/ Summary \/ Exit

Spec == Init /\ [][Next]_vars

\* ====================================================================
\* Properties
\* ====================================================================
Succeeded(p) == p.kind = "exit" /\ p.rc = 0

RECURSIVE CountStatus(_, _)
CountStatus(out, status) ==
    IF out = <<>> THEN 0
    ELSE (IF out[1].status = status THEN 1 ELSE 0) + CountStatus(Tail(out), status)

\* C1: when the run has reached the summary and the process has exited, the
\* exit status is 0 if the failed counter is 0 and 1 otherwise, whatever the
\* warnings list holds.
ExitStatusIffNoFailure ==
    pc = "exited" =>
        /\ "summary" = sections[Len(sections)]
        /\ exit_status = (IF checks_failed = 0 THEN 0 ELSE 1)
        /\ overall = (IF checks_failed = 0 THEN "HEALTHY" ELSE "ISSUES DETECTED")

ExitZeroWithWarnings ==
    pc = "exited" /\ exit_status = 0 /\ warnings # <<>> /\ checks_passed > 0

\* C2: no result of an external call makes the process abort with an
\* exception nothing catches: every run goes on to the summary.
NoUncaughtException == pc # "crashed" /\ exc = "none"

AllSections == Routines \o <<"summary">>

\* C3: the routines run in the fixed order, the summary comes after all of
\* them, and by then every routine has recorded its results, failed or not.
FixedOrderThenSummary ==
    /\ Len(sections) <= Len(AllSections)
    /\ \A i \in 1..Len(sections) : sections[i] = AllSections[i]
    /\ pc \in {"summary", "exit", "exited"} =>
          /\ Len(sections) >= Len(Routines)
          /\ nresults >= 2 + 2 + Len(Components) + 1 + 2 + 2 + Len(Endpoints)

AllFailedAllRan ==
    /\ pc = "exited"
    /\ checks_passed = 0
    /\ checks_failed >= 2 + 2 + Len(Components) + 1 + 2 + 2 + Len(Endpoints)
    /\ sections = AllSections

NodeListParsed ==
    /\ last = "node_status"
    /\ Succeeded(ext)
    /\ ext.stdout.json = "object"
    /\ ext.stdout.items # <<>>
    /\ \A i \in 1..Len(ext.stdout.items[1]) : ext.stdout.items[1][i].conditions # <<>>

HasReadyTrue(node) ==
    \E j \in 1..Len(node.conditions[1]) :
        node.conditions[1][j] = [type |-> "Ready", status |-> "True"]

\* C4: when the node list command succeeds with N nodes of which R have a
\* Ready condition with status True, exactly one result, Node readiness, is
\* recorded; it passes iff R = N and its message is "R/N nodes ready"; a
\* node with several such conditions counts once.
NodeReadinessIffAllReady ==
    NodeListParsed =>
        LET items == ext.stdout.items[1]
            N == Len(items)
            R == Cardinality({i \in 1..N : HasReadyTrue(items[i])})
        IN  /\ pc # "crashed"
            /\ printed = <<[status |-> IF R = N THEN "PASS" ELSE "FAIL",
                            name |-> "Node readiness",
                            message |-> ToString(R) \o "/" \o ToString(N)
                                           \o " nodes ready"]>>

NodeWithTwoReadyConditions ==
    /\ NodeListParsed
    /\ Len(ext.stdout.items[1]) = 2
    /\ \E i \in 1..2 :
          ext.stdout.items[1][i].conditions[1]
             = <<[type |-> "Ready", status |-> "True"],
                 [type |-> "Ready", status |-> "True"]>>
    /\ printed[1].status = "PASS"
    /\ printed[1].message = "2/2 nodes ready"

ClusterParsed ==
    /\ last = "database"
    /\ Succeeded(ext)
    /\ ext.stdout.json = "object"

Field(doc, f) ==
    IF doc.status = <<>> THEN 0
    ELSE IF doc.status[1][f] = <<>> THEN 0 ELSE doc.status[1][f][1]

\* C5: when the cluster command succeeds and its output parses, the
\* PostgreSQL cluster result passes iff readyInstances = instances and
\* instances > 0, an absent field counting as 0.
ClusterPassesIffAllReadyAndPositive ==
    ClusterParsed =>
        LET ri == Field(ext.stdout, "readyInstances")
            n == Field(ext.stdout, "instances")
        IN  /\ pc # "crashed"
            /\ Len(printed) = 2
            /\ printed[1].name = "PostgreSQL cluster"
            /\ printed[1].status = "PASS" <=> (ri = n /\ n > 0)
            /\ (ri = 2 /\ n = 2) => printed[1].status = "PASS"
            /\ (ri = 1 /\ n = 2) => printed[1].status = "FAIL"
            /\ n = 0 => printed[1].status = "FAIL"

ZeroInstancesFail ==
    /\ ClusterParsed
    /\ ext.stdout.status # <<>>
    /\ ext.stdout.status[1].instances = <<0>>
    /\ ext.stdout.status[1].readyInstances = <<0>>
    /\ printed[1].status = "FAIL"
    /\ printed[1].message = "0/0 instances ready"

RowParsed ==
    /\ last = "top_line"
    /\ line.shape = "row"
    /\ line.cpu_pct # <<>>
    /\ line.memory_pct # <<>>

\* C6: for a line with integer percentages, the node's result passes iff
\* cpu < 80 and memory < 80, and the High resource usage warning is printed
\* iff cpu > 90 or memory > 90; so a warning only follows a failure.
NodeResultAndWarningThresholds ==
    RowParsed =>
        LET cpu == line.cpu_pct[1]
            mem == line.memory_pct[1]
            warned == Len(printed) = 2
        IN  /\ pc # "crashed"
            /\ Len(printed) \in {1, 2}
            /\ printed[1].name = "Node " \o line.node
            /\ printed[1].status = "PASS" <=> (cpu < 80 /\ mem < 80)
            /\ warned <=> (cpu > 90 \/ mem > 90)
            /\ warned => /\ printed[2].status = "WARN"
                         /\ printed[2].message = "High resource usage on " \o line.node
                         /\ printed[1].status = "FAIL"
                         /\ warnings[Len(warnings)] = printed[2].message
            /\ (cpu \in 80..90 /\ mem <= 90) => (printed[1].status = "FAIL" /\ ~warned)

Cpu85FailsWithoutWarning ==
    /\ RowParsed
    /\ line.cpu_pct = <<85>>
    /\ line.memory_pct = <<50>>
    /\ Len(printed) = 1
    /\ printed[1].status = "FAIL"

TopUnavailable ==
    "Cannot get node resource usage (metrics-server might not be available)"

\* C7: a warning leaves the counters alone: when the top nodes command
\* fails, the step appends exactly one warning and records no result; the
\* warning of a row step is appended once and moves neither counter beyond
\* the row's own result; a run with that failed command and every recorded
\* result passed exits with status 0.
WarningLeavesTally ==
    /\ [][(pc = "top_nodes" /\ ~Succeeded(ext')) =>
            /\ checks_passed' = checks_passed
            /\ checks_failed' = checks_failed
            /\ nresults' = nresults
            /\ warnings' = Append(warnings, TopUnavailable)
            /\ pc' = "summary"]_vars
    /\ [][(pc = "top_line" /\ pc' # "crashed") =>
            /\ checks_passed' + checks_failed'
                  = checks_passed + checks_failed + CountStatus(printed', "PASS")
                       + CountStatus(printed', "FAIL")
            /\ IF CountStatus(printed', "WARN") = 1
               THEN warnings' = Append(warnings, printed'[Len(printed')].message)
               ELSE warnings' = warnings]_vars
    /\ [](pc = "exited" /\ warnings = <<TopUnavailable>> /\ checks_passed = nresults
            => checks_failed = 0 /\ exit_status = 0)

OnlyTopNodesFailed ==
    /\ pc = "summary"
    /\ last = "top_nodes"
    /\ printed = <<[status |-> "WARN", name |-> "", message |-> TopUnavailable]>>
    /\ warnings = <<TopUnavailable>>
    /\ checks_failed = 0

ProbeSteps == {"phoenix_health", "prometheus", "grafana", "ingress_probe"}

\* C8: check_http_endpoint returns true iff the GET completes with the
\* expected status (200); on a connection error, a timeout or another
\* status it returns false without raising, and it changes neither the
\* counters nor the warnings list.
HttpProbeTrueIffExpectedStatus ==
    /\ [](last \in ProbeSteps =>
            /\ pc # "crashed"
            /\ ret = (ext.kind = "response" /\ ext.status = 200))
    /\ [][last' \in ProbeSteps =>
            /\ UNCHANGED <<checks_passed, checks_failed, warnings, nresults>>
            /\ printed' = <<>>]_vars

ProbeTimedOut ==
    /\ last = "ingress_probe"
    /\ ext.kind = "Timeout"
    /\ ret = FALSE
    /\ pc = "ingress_log"

DeploymentStepDone ==
    /\ last \in {"infra_item", "phoenix_deployment"}
    /\ pc # "crashed"

DeploymentName ==
    IF last = "infra_item" THEN ComponentName(idx - 1) ELSE "Phoenix deployment"

DeploymentParses(doc) ==
    /\ doc.json = "object"
    /\ doc.status # <<>>
    /\ doc.spec # <<>>
    /\ doc.spec[1].replicas # <<>>

DeploymentResult(parse_message) ==
    /\ Len(printed) = 1
    /\ printed[1].name = DeploymentName
    /\ IF ~Succeeded(ext)
       THEN printed[1].status = "FAIL" /\ printed[1].message = "Deployment not found"
       ELSE IF DeploymentParses(ext.stdout)
       THEN LET ready == IF ext.stdout.status[1].readyReplicas = <<>> THEN 0
                         ELSE ext.stdout.status[1].readyReplicas[1]
                desired == ext.stdout.spec[1].replicas[1]
            IN  printed[1].status = "PASS" <=> ready = desired
       ELSE printed[1].status = "FAIL" /\ printed[1].message = parse_message

TallyCountsResults ==
    /\ [](checks_passed + checks_failed = nresults)
    /\ [](nresults = 0 => checks_passed = 0 /\ checks_failed = 0)
    /\ [][/\ checks_passed' = checks_passed + CountStatus(printed', "PASS")
          /\ checks_failed' = checks_failed + CountStatus(printed', "FAIL")
          /\ CountStatus(printed', "WARN") = 0 => warnings' = warnings
          /\ checks_passed' >= checks_passed
          /\ checks_failed' >= checks_failed]_vars

MixedTally ==
    /\ pc = "exited"
    /\ checks_passed > 0
    /\ checks_failed > 0
    /\ warnings # <<>>
    /\ checks_passed + checks_failed = nresults
====
